---- MODULE Spec2Model ----
(***************************************************************************)
(* ThreadSafeQueue (src/src/thread_safe_queue.hpp) as a state machine of   *)
(* atomic steps, one per atomic operation, store or futex call of enqueue, *)
(* dequeue, resize and wakeup_all, and SortKey (src/src/mixer_node.hpp)    *)
(* as operators on (magnitude, digits) values.                             *)
(***************************************************************************)
EXTENDS Integers, Sequences, FiniteSets, TLC

\* ------------------------------------------------------------ bounds
MaxCap == 2            \* largest capacity passed to resize in Spec
MaxItems == 2          \* enqueue calls, and dequeue calls, made in Spec
SeqCap == 3            \* largest capacity passed to resize in SpecSeq
SeqItems == 5          \* enqueue calls of the single thread in SpecSeq

Producers == {"p1", "p2"}
Consumers == {"c1", "c2"}
MaxDigits == 2         \* longest key passed to single in SpecKey
MaxCount == 3          \* largest count passed to multi in SpecMulti
CmpDigits == 2         \* longest key passed to compare in SpecCompare
SeqProducers == {"p1"}
SeqConsumers == {"c1"}
RebaseCap == 3         \* largest capacity passed to resize in SpecRebase
RebaseItems == 6       \* enqueue calls, and dequeue calls, made in SpecRebase
RebaseProducers == {"p1"}
RebaseConsumers == {"c1", "c2"}

\* ------------------------------------------------------------ state
VARIABLES
    _size,          \* int _size
    _slots,         \* slot storage: index -> item
    _queue_count,   \* atomic_int _queue_count
    _read_index,    \* atomic_int _read_index
    _write_index,   \* atomic_int _write_index
    _modulus_flag,  \* atomic_flag _modulus_flag
    ready,          \* a resize call has returned 0
    resize_arg,     \* argument of the last resize call
    resize_ret,     \* return value of the last resize call
    panicked,       \* panic() was called: the process has aborted
    ppc,            \* producer -> position inside enqueue
    pitem,          \* producer -> item of the current enqueue call
    pnext,          \* producer -> number of enqueue calls made
    pw,             \* producer -> [my_write_index, in_bounds_index, claim]
    pq,             \* producer -> my_queue_count
    cpc,            \* consumer -> position inside dequeue
    cq,             \* consumer -> my_queue_count
    cr,             \* consumer -> [my_read_index, in_bounds_index, claim]
    ncalls,         \* dequeue calls started
    wlog,           \* items in the order their enqueue claimed write_index
    nreads,         \* fetch-and-adds performed on _read_index
    out,            \* dequeue returns: [claim |-> read claim number, item |-> returned]
    wpc,            \* position of the thread calling wakeup_all
    wcount,         \* count argument computed by wakeup_all
    wwoken,         \* wakeup_all: [parked, quiet] at its load of _queue_count
    key             \* SortKey request with its result: [low, high, res, done] for single

qvars == <<_size, _slots, _queue_count, _read_index, _write_index, _modulus_flag>>
svars == <<ready, resize_arg, resize_ret>>
pvars == <<ppc, pitem, pnext, pw, pq>>
cvars == <<cpc, cq, cr, ncalls>>
gvars == <<wlog, nreads, out>>
wvars == <<wpc, wcount, wwoken>>
vars == <<qvars, svars, panicked, pvars, cvars, gvars, wvars, key>>

\* error.h codes returned by resize
GenesisErrorNoMem == "GenesisErrorNoMem"
GenesisErrorInvalidParam == "GenesisErrorInvalidParam"

\* content of a slot that no enqueue has stored into yet
Uninit == <<"uninit", 0>>
\* what a read outside the allocated slot array yields
OutOfBounds == <<"out_of_bounds", 0>>

\* C++ integer remainder: truncates towards zero, sign of the dividend
CRem(a, b) == IF a >= 0 THEN a % b ELSE -((-a) % b)

NoClaim == [my |-> 0, idx |-> 0, claim |-> 0]
NoItem == <<"none", 0>>

InitQueue ==
    /\ _size = 0
    /\ _slots = <<>>
    /\ _queue_count = 0
    /\ _read_index = 0
    /\ _write_index = 0
    /\ _modulus_flag = FALSE
    /\ ready = FALSE
    /\ resize_arg = 0
    /\ resize_ret = "none"
    /\ panicked = FALSE
    /\ ppc = [p \in Producers |-> "idle"]
    /\ pitem = [p \in Producers |-> NoItem]
    /\ pnext = [p \in Producers |-> 0]
    /\ pw = [p \in Producers |-> NoClaim]
    /\ pq = [p \in Producers |-> 0]
    /\ cpc = [c \in Consumers |-> "idle"]
    /\ cq = [c \in Consumers |-> 0]
    /\ cr = [c \in Consumers |-> NoClaim]
    /\ ncalls = 0
    /\ wlog = <<>>
    /\ nreads = 0
    /\ out = {}
    /\ wpc = "idle"
    /\ wcount = 0
    /\ wwoken = [parked |-> {}, quiet |-> FALSE]

\* the null pointer passed for an unbounded side
Null == [magnitude |-> -1, digits |-> <<>>]
KeyIdle == [low |-> Null, high |-> Null, res |-> Null, done |-> FALSE]

Init == InitQueue /\ key = KeyIdle

\* ------------------------------------------------------------ resize
\* reallocate_safe(_slots, _size, size): the new storage, or "null" when the
\* allocation fails; a negative count converts to a size_t no allocation meets
reallocate_safe(old, old_count, new_count, ok) ==
    IF new_count < 0 \/ ~ok THEN [null |-> TRUE, items |-> old]
    ELSE [null |-> FALSE,
          items |-> [i \in 0..(new_count - 1) |->
                        IF i < old_count THEN old[i] ELSE Uninit]]

\* line 51 tests `length`, which is not the parameter `size`: its value is
\* whatever the enclosing scope binds it to
ResizeRejects(size, length) == length < 0

\* lines 50-65. The code keeps the storage reallocate_safe returns in the
\* local new_items; the model takes it as the array _slots addresses from
\* then on (the queue is unusable otherwise).
Resize(size, length, ok) ==
    /\ ~ready /\ ~panicked
    /\ resize_arg' = size
    /\ IF ResizeRejects(size, length)
       THEN /\ resize_ret' = GenesisErrorInvalidParam
            /\ UNCHANGED <<qvars, ready>>
       ELSE LET new_items == reallocate_safe(_slots, _size, size, ok) IN
            IF new_items.null
            THEN /\ resize_ret' = GenesisErrorNoMem
                 /\ UNCHANGED <<qvars, ready>>
            ELSE /\ _slots' = new_items.items
                 /\ _size' = size
                 /\ _queue_count' = 0
                 /\ _read_index' = 0
                 /\ _write_index' = 0
                 /\ _modulus_flag' = FALSE
                 /\ resize_ret' = "0"
                 /\ ready' = TRUE
    /\ UNCHANGED <<panicked, pvars, cvars, gvars, wvars, key>>

\* ------------------------------------------------------------ futex
\* consumers asleep inside futex_wait(&_queue_count, ...)
Parked == {c \in DOMAIN cpc : cpc[c] = "parked"}

Min(a, b) == IF a <= b THEN a ELSE b

\* a wake that does not return until it has woken count sleepers
futex_wake_blocking(count) ==
    {W \in SUBSET Parked : Cardinality(W) = count}

\* futex_wake(&_queue_count, count): the sets of sleepers it may wake. Up to
\* count sleepers are woken; with count <= 0 the kernel wakes none or one.
futex_wake(count) ==
    IF count >= 1
    THEN {W \in SUBSET Parked : Cardinality(W) = Min(count, Cardinality(Parked))}
    ELSE {W \in SUBSET Parked : Cardinality(W) <= 1}

\* futex_wait(&_queue_count, val) sleeps only while the word still holds val;
\* otherwise it returns EWOULDBLOCK at once
futex_wait_sleeps(val) == _queue_count = val

\* ------------------------------------------------------------ enqueue
IsFullOffByOne(my_queue_count) == my_queue_count > _size

\* line 73: my_queue_count >= _size
IsFull(my_queue_count) == my_queue_count >= _size

\* line 75: my_queue_count <= 0
MayHaveWaiter(my_queue_count) == my_queue_count <= 0

\* lines 68-70: claim the next write slot
EnqClaim(p, max) ==
    /\ ready /\ ~panicked
    /\ ppc[p] = "idle"
    /\ Len(wlog) < max
    /\ pnext' = [pnext EXCEPT ![p] = @ + 1]
    /\ pitem' = [pitem EXCEPT ![p] = <<p, pnext[p] + 1>>]
    /\ pw' = [pw EXCEPT ![p] = [my |-> _write_index,
                                idx |-> CRem(_write_index, _size),
                                claim |-> Len(wlog) + 1]]
    /\ _write_index' = _write_index + 1
    /\ wlog' = Append(wlog, <<p, pnext[p] + 1>>)
    /\ ppc' = [ppc EXCEPT ![p] = "store"]
    /\ UNCHANGED <<_size, _slots, _queue_count, _read_index, _modulus_flag,
                   svars, panicked, pq, cvars, nreads, out, wvars, key>>

\* line 71: slot->item = item (a store outside the array lands elsewhere)
EnqStore(p) ==
    /\ ~panicked
    /\ ppc[p] = "store"
    /\ _slots' = IF pw[p].idx \in DOMAIN _slots
                 THEN [_slots EXCEPT ![pw[p].idx] = pitem[p]]
                 ELSE _slots
    /\ ppc' = [ppc EXCEPT ![p] = "count"]
    /\ pitem' = [pitem EXCEPT ![p] = NoItem]
    /\ pw' = [pw EXCEPT ![p] = NoClaim]
    /\ UNCHANGED <<_size, _queue_count, _read_index, _write_index, _modulus_flag,
                   svars, panicked, pnext, pq, cvars, gvars, wvars, key>>

\* lines 72-75: fetch_add on _queue_count, then the two tests of the old value
EnqCount(p) ==
    /\ ~panicked
    /\ ppc[p] = "count"
    /\ _queue_count' = _queue_count + 1
    /\ IF IsFull(_queue_count)
       THEN /\ panicked' = TRUE
            /\ ppc' = [ppc EXCEPT ![p] = "panic"]
            /\ pq' = [pq EXCEPT ![p] = _queue_count]
       ELSE /\ panicked' = panicked
            /\ IF MayHaveWaiter(_queue_count)
               THEN /\ ppc' = [ppc EXCEPT ![p] = "wake"]
                    /\ pq' = [pq EXCEPT ![p] = _queue_count]
               ELSE /\ ppc' = [ppc EXCEPT ![p] = "idle"]   \* enqueue returns
                    /\ pq' = [pq EXCEPT ![p] = 0]
    /\ UNCHANGED <<_size, _slots, _read_index, _write_index, _modulus_flag,
                   svars, pitem, pnext, pw, cvars, gvars, wvars, key>>

\* line 76: futex_wake(&_queue_count, 1)
EnqWake(p) ==
    /\ ~panicked
    /\ ppc[p] = "wake"
    /\ \E W \in futex_wake(1) :
          cpc' = [c \in DOMAIN cpc |-> IF c \in W THEN "claim" ELSE cpc[c]]
    /\ ppc' = [ppc EXCEPT ![p] = "idle"]   \* enqueue returns
    /\ pq' = [pq EXCEPT ![p] = 0]
    /\ UNCHANGED <<qvars, svars, panicked, pitem, pnext, pw, cq, cr, ncalls,
                   gvars, wvars, key>>

\* ------------------------------------------------------------ dequeue
\* line 81: fetch_sub on _queue_count, entered by a new call ("idle") or by
\* `goto outer` ("retry"); line 82 tests the old value
DeqDecr(c, maxcalls) ==
    /\ ready /\ ~panicked
    /\ \/ cpc[c] = "idle" /\ ncalls < maxcalls /\ ncalls' = ncalls + 1
       \/ cpc[c] = "retry" /\ ncalls' = ncalls
    /\ cq' = [cq EXCEPT ![c] = _queue_count]
    /\ _queue_count' = _queue_count - 1
    /\ cpc' = [cpc EXCEPT ![c] = IF _queue_count <= 0 THEN "wait" ELSE "claim"]
    /\ UNCHANGED <<_size, _slots, _read_index, _write_index, _modulus_flag,
                   svars, panicked, pvars, cr, gvars, wvars, key>>

\* line 85: futex_wait(&_queue_count, my_queue_count - 1) goes to sleep
DeqPark(c) ==
    /\ ~panicked
    /\ cpc[c] = "wait"
    /\ futex_wait_sleeps(cq[c] - 1)
    /\ cpc' = [cpc EXCEPT ![c] = "parked"]
    /\ UNCHANGED <<qvars, svars, panicked, pvars, cq, cr, ncalls, gvars, wvars, key>>

\* lines 85, 88: futex_wait returns EWOULDBLOCK
DeqMismatch(c) ==
    /\ ~panicked
    /\ cpc[c] = "wait"
    /\ ~futex_wait_sleeps(cq[c] - 1)
    /\ cpc' = [cpc EXCEPT ![c] = "compensate"]
    /\ UNCHANGED <<qvars, svars, panicked, pvars, cq, cr, ncalls, gvars, wvars, key>>

\* dequeue restarting without giving the decrement back
DeqCompensateNone(c) ==
    /\ ~panicked
    /\ cpc[c] = "compensate"
    /\ _queue_count' = _queue_count
    /\ cpc' = [cpc EXCEPT ![c] = "retry"]
    /\ UNCHANGED <<_size, _slots, _read_index, _write_index, _modulus_flag,
                   svars, panicked, pvars, cq, cr, ncalls, gvars, wvars, key>>

\* lines 91-92: _queue_count += 1; goto outer
DeqCompensate(c) ==
    /\ ~panicked
    /\ cpc[c] = "compensate"
    /\ _queue_count' = _queue_count + 1
    /\ cpc' = [cpc EXCEPT ![c] = "retry"]
    /\ UNCHANGED <<_size, _slots, _read_index, _write_index, _modulus_flag,
                   svars, panicked, pvars, cq, cr, ncalls, gvars, wvars, key>>

\* lines 93-95: futex_wait returns EINTR; the loop waits again on the same value
DeqEintr(c) ==
    /\ ~panicked
    /\ cpc[c] = "parked"
    /\ cpc' = [cpc EXCEPT ![c] = "wait"]
    /\ UNCHANGED <<qvars, svars, panicked, pvars, cq, cr, ncalls, gvars, wvars, key>>

\* line 106, first operand: my_read_index >= _size
CrossedBoundary(my_read_index) == my_read_index >= _size

\* lines 103-104: claim the next read slot
DeqClaim(c) ==
    /\ ~panicked
    /\ cpc[c] = "claim"
    /\ cr' = [cr EXCEPT ![c] = [my |-> _read_index,
                                idx |-> CRem(_read_index, _size),
                                claim |-> nreads + 1]]
    /\ _read_index' = _read_index + 1
    /\ nreads' = nreads + 1
    /\ cpc' = [cpc EXCEPT ![c] = IF CrossedBoundary(_read_index) THEN "tas" ELSE "read"]
    /\ cq' = [cq EXCEPT ![c] = 0]
    /\ UNCHANGED <<_size, _slots, _queue_count, _write_index, _modulus_flag,
                   svars, panicked, pvars, ncalls, wlog, out, wvars, key>>

\* line 106, second operand: !_modulus_flag.test_and_set()
DeqTas(c) ==
    /\ ~panicked
    /\ cpc[c] = "tas"
    /\ _modulus_flag' = TRUE
    /\ cpc' = [cpc EXCEPT ![c] = IF _modulus_flag THEN "read" ELSE "sub_read"]
    /\ UNCHANGED <<_size, _slots, _queue_count, _read_index, _write_index,
                   svars, panicked, pvars, cq, cr, ncalls, gvars, wvars, key>>

RebasedOffByOne(index) == index - _size + 1

\* lines 107-108: index -= _size
Rebased(index) == index - _size

\* line 107: _read_index -= _size
DeqSubRead(c) ==
    /\ ~panicked
    /\ cpc[c] = "sub_read"
    /\ _read_index' = Rebased(_read_index)
    /\ cpc' = [cpc EXCEPT ![c] = "sub_write"]
    /\ UNCHANGED <<_size, _slots, _queue_count, _write_index, _modulus_flag,
                   svars, panicked, pvars, cq, cr, ncalls, gvars, wvars, key>>

\* line 108: _write_index -= _size
DeqSubWrite(c) ==
    /\ ~panicked
    /\ cpc[c] = "sub_write"
    /\ _write_index' = Rebased(_write_index)
    /\ cpc' = [cpc EXCEPT ![c] = "clear"]
    /\ UNCHANGED <<_size, _slots, _queue_count, _read_index, _modulus_flag,
                   svars, panicked, pvars, cq, cr, ncalls, gvars, wvars, key>>

\* line 109: _modulus_flag.clear()
DeqClear(c) ==
    /\ ~panicked
    /\ cpc[c] = "clear"
    /\ _modulus_flag' = FALSE
    /\ cpc' = [cpc EXCEPT ![c] = "read"]
    /\ UNCHANGED <<_size, _slots, _queue_count, _read_index, _write_index,
                   svars, panicked, pvars, cq, cr, ncalls, gvars, wvars, key>>

\* lines 111-112: return slot->item
SlotItem(idx) == IF idx \in DOMAIN _slots THEN _slots[idx] ELSE OutOfBounds

DeqRead(c) ==
    /\ ~panicked
    /\ cpc[c] = "read"
    /\ out' = out \cup {[claim |-> cr[c].claim, item |-> SlotItem(cr[c].idx)]}
    /\ cpc' = [cpc EXCEPT ![c] = "idle"]
    /\ cr' = [cr EXCEPT ![c] = NoClaim]
    /\ UNCHANGED <<qvars, svars, panicked, pvars, cq, ncalls, wlog, nreads,
                   wvars, key>>

\* ------------------------------------------------------------ Spec
\* resize, then producers and consumers calling enqueue and dequeue
ResizeArgs(cap) == {-1} \cup (1..cap)
Lengths == {-1, 0}

Next ==
    \/ \E size \in ResizeArgs(MaxCap), length \in Lengths, ok \in BOOLEAN :
          Resize(size, length, ok)
    \/ \E p \in Producers : EnqClaim(p, MaxItems)
    \/ \E p \in Producers : EnqStore(p)
    \/ \E p \in Producers : EnqCount(p)
    \/ \E p \in Producers : EnqWake(p)
    \/ \E c \in Consumers : DeqDecr(c, MaxItems)
    \/ \E c \in Consumers : DeqPark(c)
    \/ \E c \in Consumers : DeqMismatch(c)
    \/ \E c \in Consumers : DeqCompensate(c)
    \/ \E c \in Consumers : DeqEintr(c)
    \/ \E c \in Consumers : DeqClaim(c)
    \/ \E c \in Consumers : DeqTas(c)
    \/ \E c \in Consumers : DeqSubRead(c)
    \/ \E c \in Consumers : DeqSubWrite(c)
    \/ \E c \in Consumers : DeqClear(c)
    \/ \E c \in Consumers : DeqRead(c)

Spec == Init /\ [][Next]_vars

\* ------------------------------------------------------------ SpecSeq
\* one thread calling enqueue and dequeue after resize: a call starts only
\* when no call is in progress, enqueue never with _size items stored and
\* dequeue never on an empty queue
AllIdle == (\A p \in DOMAIN ppc : ppc[p] = "idle") /\ (\A c \in DOMAIN cpc : cpc[c] = "idle")
Stored == Len(wlog) - Cardinality(out)

SeqEnqueue(p) == AllIdle /\ Stored < _size /\ EnqClaim(p, SeqItems)
SeqDequeue(c) == AllIdle /\ Stored > 0 /\ DeqDecr(c, SeqItems)

NextSeq ==
    \/ \E size \in ResizeArgs(SeqCap), length \in Lengths, ok \in BOOLEAN :
          Resize(size, length, ok)
    \/ \E p \in SeqProducers : SeqEnqueue(p)
    \/ \E p \in SeqProducers : EnqStore(p)
    \/ \E p \in SeqProducers : EnqCount(p)
    \/ \E p \in SeqProducers : EnqWake(p)
    \/ \E c \in SeqConsumers : SeqDequeue(c)
    \/ \E c \in SeqConsumers : DeqClaim(c)
    \/ \E c \in SeqConsumers : DeqTas(c)
    \/ \E c \in SeqConsumers : DeqSubRead(c)
    \/ \E c \in SeqConsumers : DeqSubWrite(c)
    \/ \E c \in SeqConsumers : DeqClear(c)
    \/ \E c \in SeqConsumers : DeqRead(c)

SpecSeq == Init /\ [][NextSeq]_vars

\* ------------------------------------------------------------ SpecRebase
\* one producer and two consumers, with enough calls for _read_index to pass
\* the capacity more than once; the producer calls enqueue only while fewer
\* than _size of its items have not been returned by a dequeue
RebaseEnqueue(p) == Stored < _size /\ EnqClaim(p, RebaseItems)

NextRebase ==
    \/ \E size \in ResizeArgs(RebaseCap), length \in Lengths, ok \in BOOLEAN :
          Resize(size, length, ok)
    \/ \E p \in RebaseProducers : RebaseEnqueue(p)
    \/ \E p \in RebaseProducers : EnqStore(p)
    \/ \E p \in RebaseProducers : EnqCount(p)
    \/ \E p \in RebaseProducers : EnqWake(p)
    \/ \E c \in RebaseConsumers : DeqDecr(c, RebaseItems)
    \/ \E c \in RebaseConsumers : DeqPark(c)
    \/ \E c \in RebaseConsumers : DeqMismatch(c)
    \/ \E c \in RebaseConsumers : DeqCompensate(c)
    \/ \E c \in RebaseConsumers : DeqEintr(c)
    \/ \E c \in RebaseConsumers : DeqClaim(c)
    \/ \E c \in RebaseConsumers : DeqTas(c)
    \/ \E c \in RebaseConsumers : DeqSubRead(c)
    \/ \E c \in RebaseConsumers : DeqSubWrite(c)
    \/ \E c \in RebaseConsumers : DeqClear(c)
    \/ \E c \in RebaseConsumers : DeqRead(c)

SpecRebase == Init /\ [][NextRebase]_vars

\* ------------------------------------------------------------ wakeup_all
\* line 116, argument: the load of _queue_count, negated
WakeupAllLoad ==
    /\ ready /\ ~panicked
    /\ wpc = "idle"
    /\ wcount' = -_queue_count
    /\ wwoken' = [parked |-> Parked, quiet |-> \A p \in DOMAIN ppc : ppc[p] = "idle"]
    /\ wpc' = "loaded"
    /\ UNCHANGED <<qvars, svars, panicked, pvars, cvars, gvars, key>>

\* line 116: futex_wake(&_queue_count, count)
WakeupAllWake ==
    /\ ~panicked
    /\ wpc = "loaded"
    /\ \E W \in futex_wake(wcount) :
          cpc' = [c \in DOMAIN cpc |-> IF c \in W THEN "claim" ELSE cpc[c]]
    /\ wpc' = "done"
    /\ wcount' = 0
    /\ wwoken' = [parked |-> {}, quiet |-> FALSE]
    /\ UNCHANGED <<qvars, svars, panicked, pvars, cq, cr, ncalls, gvars, key>>

NextWake ==
    \/ Next
    \/ WakeupAllLoad
    \/ WakeupAllWake

SpecWake == Init /\ [][NextWake]_vars

\* ------------------------------------------------------------ SortKey
\* List<uint8_t> digits: one digit is a base-256 value
DIGIT_BASE == 256

SortKeyOf(ds) == [magnitude |-> Len(ds), digits |-> ds]
\* SortKey(int value): the one-digit key
SortKeyInt(value) == SortKeyOf(<<value>>)

\* pad_in_place: zero-extend to the given magnitude
pad_in_place(sort_key, magnitude) ==
    IF magnitude <= sort_key.magnitude THEN sort_key
    ELSE SortKeyOf(sort_key.digits \o [i \in 1..(magnitude - sort_key.magnitude) |-> 0])

Max(a, b) == IF a >= b THEN a ELSE b

\* pad_to_equal_magnitude: both keys at the larger magnitude
pad_to_equal_magnitude(a, b) ==
    <<pad_in_place(a, Max(a.magnitude, b.magnitude)),
      pad_in_place(b, Max(a.magnitude, b.magnitude))>>

RECURSIVE truncate_fraction(_)
\* strip trailing zero digits, keeping the single zero value
truncate_fraction(value) ==
    IF value.magnitude > 1 /\ value.digits[value.magnitude] = 0
    THEN truncate_fraction(SortKeyOf(SubSeq(value.digits, 1, value.magnitude - 1)))
    ELSE value

RECURSIVE LexCompare(_, _, _)
LexCompare(x, y, i) ==
    IF i > Len(x) THEN 0
    ELSE IF x[i] < y[i] THEN -1
    ELSE IF x[i] > y[i] THEN 1
    ELSE LexCompare(x, y, i + 1)

\* the shorter key first, digits compared only at equal magnitude
compareByMagnitude(a, b) ==
    IF a.magnitude < b.magnitude THEN -1
    ELSE IF a.magnitude > b.magnitude THEN 1
    ELSE LexCompare(a.digits, b.digits, 1)

\* compare: lexicographic after zero-padding to a common magnitude
compare(a, b) ==
    LET ab == pad_to_equal_magnitude(a, b) IN LexCompare(ab[1].digits, ab[2].digits, 1)

RECURSIVE AddCarry(_, _, _)
\* digit-wise x + y + carry of two equally long digit sequences, from the
\* least significant digit up; the result has one more (leading) digit
AddCarry(x, y, carry) ==
    IF x = <<>> THEN <<carry>>
    ELSE LET n == Len(x)
             s == x[n] + y[n] + carry
         IN  Append(AddCarry(SubSeq(x, 1, n - 1), SubSeq(y, 1, n - 1), s \div DIGIT_BASE),
                    s % DIGIT_BASE)

RECURSIVE HalveFrom(_, _, _)
\* digit-wise division by two from digit i on, rem the remainder carried down
HalveFrom(ds, i, rem) ==
    IF i > Len(ds) THEN <<>>
    ELSE LET cur == rem * DIGIT_BASE + ds[i]
         IN  <<cur \div 2>> \o HalveFrom(ds, i + 1, cur % 2)

\* the half of an odd sum, cut off instead of carried into a new digit
averageTruncating(low, high) ==
    LET lh == pad_to_equal_magnitude(low, high)
        sum == AddCarry(lh[1].digits, lh[2].digits, 0)
    IN  truncate_fraction(SortKeyOf(Tail(HalveFrom(sum, 1, 0))))

\* average: digit-wise mean with carry, one more digit place when the
\* least significant sum is odd, trailing zero digits stripped
average(low, high) ==
    LET lh == pad_to_equal_magnitude(low, high)
        sum == AddCarry(lh[1].digits, lh[2].digits, 0)
        odd == sum[Len(sum)] % 2 = 1
    IN  truncate_fraction(
            SortKeyOf(Tail(HalveFrom(IF odd THEN Append(sum, 0) ELSE sum, 1, 0))))

\* increment: one unit in the last place at the same magnitude; when that
\* overflows the magnitude grows by one digit place
increment(value) ==
    LET s == AddCarry(value.digits, [i \in 1..value.magnitude |-> 0], 1) IN
    truncate_fraction(
        IF s[1] # 0
        THEN SortKeyOf(Append(value.digits, 1))
        ELSE SortKeyOf(Tail(s)))

\* single(low, high); a Null bound is unbounded on that side
single(low, high) ==
    IF low = Null /\ high = Null THEN SortKeyInt(DIGIT_BASE \div 2)
    ELSE IF low = Null THEN average(SortKeyInt(0), high)
    ELSE IF high = Null THEN increment(low)
    ELSE average(low, high)

\* canonical form: no trailing zero digit except the single zero value
Canonical(k) ==
    /\ k.magnitude = Len(k.digits) /\ k.magnitude >= 1
    /\ \A i \in 1..k.magnitude : k.digits[i] \in 0..(DIGIT_BASE - 1)
    /\ (k.magnitude > 1 => k.digits[k.magnitude] # 0)

\* the keys requests are drawn from: canonical, not the zero value (which
\* only anchors the null-low case), digits from both ends and the middle
DigitSamples == {0, 1, 127, 128, 254, 255}
KeyInputs ==
    {k \in {SortKeyOf(ds) : ds \in UNION {[1..n -> DigitSamples] : n \in 1..MaxDigits}} :
        k.digits[k.magnitude] # 0}

\* low >= high is the caller's contract violation
ValidRequest(low, high) == low = Null \/ high = Null \/ compare(low, high) < 0

InitKey ==
    /\ InitQueue
    /\ \E low \in KeyInputs \cup {Null}, high \in KeyInputs \cup {Null} :
          /\ ValidRequest(low, high)
          /\ key = [low |-> low, high |-> high, res |-> Null, done |-> FALSE]

Single ==
    /\ ~key.done
    /\ key' = [key EXCEPT !.res = single(key.low, key.high), !.done = TRUE]
    /\ UNCHANGED <<qvars, svars, panicked, pvars, cvars, gvars, wvars>>

NextKey == Single

SpecKey == InitKey /\ [][NextKey]_vars

\* ------------------------------------------------------------ multi
RECURSIVE SubBorrow(_, _, _)
\* digit-wise x - y - borrow of two equally long digit sequences, x >= y
SubBorrow(x, y, borrow) ==
    IF x = <<>> THEN <<>>
    ELSE LET n == Len(x)
             d == x[n] - y[n] - borrow
         IN  Append(SubBorrow(SubSeq(x, 1, n - 1), SubSeq(y, 1, n - 1), IF d < 0 THEN 1 ELSE 0),
                    IF d < 0 THEN d + DIGIT_BASE ELSE d)

RECURSIVE MulSmall(_, _, _)
\* digit-wise ds * k + carry; the result has one more (leading) digit
MulSmall(ds, k, carry) ==
    IF ds = <<>> THEN <<carry>>
    ELSE LET n == Len(ds)
             s == ds[n] * k + carry
         IN  Append(MulSmall(SubSeq(ds, 1, n - 1), k, s \div DIGIT_BASE), s % DIGIT_BASE)

RECURSIVE DivFrom(_, _, _, _)
\* digit-wise division by k from digit i on, rem the remainder carried down
DivFrom(ds, i, rem, k) ==
    IF i > Len(ds) THEN <<>>
    ELSE LET cur == rem * DIGIT_BASE + ds[i]
         IN  <<cur \div k>> \o DivFrom(ds, i + 1, cur % k, k)

RECURSIVE CappedValue(_, _)
\* the value of a digit sequence, counted no further than cap
CappedValue(ds, cap) ==
    IF ds = <<>> THEN 0
    ELSE Min(cap, CappedValue(SubSeq(ds, 1, Len(ds) - 1), cap) * DIGIT_BASE + ds[Len(ds)])

\* the gap taken as it is, however many boundaries are asked for
GapDigitsFixed(gap, parts) == gap

RECURSIVE GapDigits(_, _)
\* the gap with digit places added until it holds `parts` distinct steps
GapDigits(gap, parts) ==
    IF CappedValue(gap, parts) >= parts THEN gap
    ELSE GapDigits(Append(gap, 0), parts)

\* the keys multi appends: the bounds with a leading whole digit (a Null low
\* is zero, a Null high is one), the gap between them cut into count + 1
\* near-even parts, boundary i at low + (i * gap) / (count + 1)
MultiKeys(low, high, count) ==
    LET lo == IF low = Null THEN SortKeyInt(0) ELSE low
        m == IF high = Null THEN lo.magnitude ELSE Max(lo.magnitude, high.magnitude)
        lowD == <<0>> \o pad_in_place(lo, m).digits
        highD == IF high = Null THEN <<1>> \o [i \in 1..m |-> 0]
                 ELSE <<0>> \o pad_in_place(high, m).digits
        gap == GapDigits(SubBorrow(highD, lowD, 0), count + 1)
        base == lowD \o [i \in 1..(Len(gap) - Len(lowD)) |-> 0]
        step(i) == Tail(DivFrom(MulSmall(gap, i, 0), 1, 0, count + 1))
    IN  [i \in 1..count |->
            truncate_fraction(SortKeyOf(Tail(Tail(AddCarry(base, step(i), 0)))))]

\* multi(out_sort_key_list, low, high, count): the list after the call
multi(out_sort_key_list, low, high, count) ==
    out_sort_key_list \o MultiKeys(low, high, count)

\* the lists multi is handed: empty, or holding a key already
OutLists == {<<>>, <<SortKeyInt(1)>>}

InitMulti ==
    /\ InitQueue
    /\ \E low \in KeyInputs \cup {Null}, high \in KeyInputs \cup {Null},
          count \in 1..MaxCount, list \in OutLists :
          /\ ValidRequest(low, high)
          /\ key = [low |-> low, high |-> high, count |-> count, list |-> list,
                    res |-> <<>>, done |-> FALSE]

Multi ==
    /\ ~key.done
    /\ key' = [key EXCEPT !.res = multi(key.list, key.low, key.high, key.count),
                          !.done = TRUE]
    /\ UNCHANGED <<qvars, svars, panicked, pvars, cvars, gvars, wvars>>

NextMulti == Multi

SpecMulti == InitMulti /\ [][NextMulti]_vars

\* ------------------------------------------------------------ compare
\* the keys compare is handed: every digit sequence of up to CmpDigits
\* digits, trailing zero digits included
CmpSamples == {0, 1, 255}
CmpInputs == {SortKeyOf(ds) : ds \in UNION {[1..n -> CmpSamples] : n \in 1..CmpDigits}}

InitCompare ==
    /\ InitQueue
    /\ \E a \in CmpInputs, b \in CmpInputs, c \in CmpInputs :
          key = [a |-> a, b |-> b, c |-> c, aa |-> 0, ab |-> 0, ba |-> 0,
                 bc |-> 0, ac |-> 0, done |-> FALSE]

Compare ==
    /\ ~key.done
    /\ key' = [key EXCEPT !.aa = compare(key.a, key.a), !.ab = compare(key.a, key.b),
                          !.ba = compare(key.b, key.a), !.bc = compare(key.b, key.c),
                          !.ac = compare(key.a, key.c), !.done = TRUE]
    /\ UNCHANGED <<qvars, svars, panicked, pvars, cvars, gvars, wvars>>

NextCompare == Compare

SpecCompare == InitCompare /\ [][NextCompare]_vars

\* ============================================================ claims
Producing == {p \in DOMAIN ppc : ppc[p] \in {"store", "count", "wake"}}
Dequeuing == {c \in DOMAIN cpc : cpc[c] # "idle"}
\* items made visible: enqueues that have incremented _queue_count
Visible == Len(wlog) - Cardinality({p \in DOMAIN ppc : ppc[p] \in {"store", "count"}})
\* write claims whose item is stored and that no dequeue has returned
StoredUnread ==
    {k \in 1..Len(wlog) :
        /\ \A p \in DOMAIN ppc : ~(ppc[p] = "store" /\ pw[p].claim = k)
        /\ \A r \in out : r.claim # k}
Returned(k) == {r \in out : r.claim = k}

\* the enqueue calls made so far never exceed the capacity
WithinCapacity == Len(wlog) <= _size

\* C1: once every enqueue and every dequeue call has returned without a
\* panic (the capacity never exceeded), every enqueued tag has been returned
\* by exactly one dequeue.
C1_Done ==
    /\ ~panicked /\ AllIdle /\ WithinCapacity
    /\ Len(wlog) = MaxItems /\ Cardinality(out) = MaxItems
C1_NoLossNoDup ==
    C1_Done => \A k \in 1..Len(wlog) : Cardinality({r \in out : r.item = wlog[k]}) = 1

C3_SlotClaimOrder ==
    (~panicked /\ WithinCapacity) => \A r \in out : r.claim \in 1..Len(wlog) /\ r.item = wlog[r.claim]

\* C4: no visible, unclaimed item is left while every producer has returned
\* and every consumer inside dequeue sleeps (or is about to sleep again) on
\* a value _queue_count holds: from there only another enqueue wakes anyone.
Stranded ==
    /\ ~panicked
    /\ Producing = {}
    /\ Visible > nreads
    /\ Dequeuing # {}
    /\ \A c \in Dequeuing : cpc[c] \in {"parked", "wait"} /\ futex_wait_sleeps(cq[c] - 1)
C4_NoStrandedItem == ~Stranded
\* without a further enqueue or dequeue call a stranded state stays stranded
StrandedIsClosed == [][(Stranded /\ wlog' = wlog /\ ncalls' = ncalls) => Stranded']_vars

\* C5: the count wakeup_all passes to futex_wake is at least the number of
\* consumers asleep at that moment (taken with no enqueue in progress).
C5_WakesAllParked ==
    (wpc = "loaded" /\ wwoken.quiet /\ wwoken.parked # {})
       => wcount >= Cardinality(wwoken.parked)

\* C6: an enqueue whose fetch_add on _queue_count returned a value >= _size
\* panics, and only such an enqueue panics.
C6_FullPanics ==
    [][\A p \in DOMAIN ppc :
          (ppc[p] = "count" /\ ppc'[p] # "count")
             => ((_queue_count >= _size) <=> (ppc'[p] = "panic" /\ panicked'))]_vars
C6_Witness == \E p \in DOMAIN ppc : ppc[p] = "panic" /\ pq[p] >= _size /\ panicked

\* C7: unless an enqueue is about to test for the panic or has panicked, the
\* items stored and not yet returned number at most _size.
C7_NoSilentOverwrite ==
    (~panicked /\ \A p \in DOMAIN ppc : ppc[p] # "count")
       => Cardinality(StoredUnread) <= _size

\* C8: a resize call with a negative capacity returns the invalid-parameter
\* error.
C8_NegativeRejected ==
    (resize_ret # "none" /\ resize_arg < 0) => resize_ret = GenesisErrorInvalidParam

\* C9: a producer inside enqueue always has an enabled step of its own and
\* moves strictly forward through claim, store, count, wake; a consumer
\* inside dequeue has an enabled step of its own everywhere but asleep in
\* futex_wait.
EnqStep(p) == EnqStore(p) \/ EnqCount(p) \/ EnqWake(p)
DeqStep(c) ==
    \/ DeqDecr(c, MaxItems) \/ DeqPark(c) \/ DeqMismatch(c) \/ DeqCompensate(c)
    \/ DeqClaim(c) \/ DeqTas(c) \/ DeqSubRead(c) \/ DeqSubWrite(c) \/ DeqClear(c)
    \/ DeqRead(c)
PRank(pc) == CASE pc = "idle" -> 0 [] pc = "store" -> 1 [] pc = "count" -> 2
               [] pc = "wake" -> 3 [] pc = "panic" -> 4
C9_EnqueueNeverBlocks ==
    /\ [](~panicked => /\ \A p \in Producing : ENABLED EnqStep(p)
                       /\ \A c \in Dequeuing : (ENABLED DeqStep(c)) <=> (cpc[c] # "parked"))
    /\ [][\A p \in DOMAIN ppc :
             ppc'[p] # ppc[p] => (ppc'[p] = "idle" \/ PRank(ppc'[p]) > PRank(ppc[p]))]_vars
C9_Witness ==
    \E p \in DOMAIN ppc : ppc[p] = "wake" /\ Parked = {} /\ \E c \in DOMAIN cpc : cpc[c] = "wait"

\* C10: single(low, high) returns a canonical key strictly above low and
\* strictly below high, a Null bound being unbounded on that side.
C10_SingleBetween ==
    key.done =>
        /\ Canonical(key.res)
        /\ key.low # Null => compare(key.low, key.res) < 0
        /\ key.high # Null => compare(key.res, key.high) < 0
\* two keys of one magnitude with an odd sum: the mean takes one more
\* digit place
C10_Witness ==
    /\ key.done /\ key.low # Null /\ key.high # Null
    /\ key.low.magnitude = key.high.magnitude
    /\ key.res.magnitude = key.low.magnitude + 1
    /\ key.res.digits[key.res.magnitude] = DIGIT_BASE \div 2
    /\ compare(key.low, key.res) < 0 /\ compare(key.res, key.high) < 0
\* the upper bound is open and every digit of low is the largest: the
\* increment grows the magnitude
C10_WitnessOverflow ==
    /\ key.done /\ key.low # Null /\ key.high = Null
    /\ key.res.magnitude = key.low.magnitude + 1
    /\ compare(key.low, key.res) < 0

\* C13: no dequeue returns the content of a slot while the enqueue that
\* claimed that slot is still before its store (the capacity never exceeded).
C13_ReadAfterStore ==
    (~panicked /\ WithinCapacity) =>
        \A r \in out : \A p \in DOMAIN ppc : ~(ppc[p] = "store" /\ pw[p].claim = r.claim)

\* C14: without wakeup_all, the fetch-and-adds made on _read_index never
\* outnumber the increments producers have made on _queue_count.
C14_ReadsWithinIncrements == nreads <= Visible

\* C15: with no producer inside enqueue and every consumer either outside
\* dequeue or asleep in futex_wait, the write claims not yet read-claimed
\* number max(_queue_count, 0), and a negative _queue_count has the number
\* of sleeping consumers as its magnitude.
Quiescent ==
    /\ ~panicked
    /\ Producing = {}
    /\ \A c \in DOMAIN cpc : cpc[c] \in {"idle", "parked"}
C15_QuiescentCount ==
    Quiescent =>
        /\ Len(wlog) - nreads = Max(_queue_count, 0)
        /\ _queue_count < 0 => -_queue_count = Cardinality(Parked)

\* C16: EINTR changes no counter and waits on the same value again,
\* EWOULDBLOCK gives back exactly one before the decrement is made again, and
\* so every dequeue call started has taken exactly one from _queue_count
\* (a call between giving back and decrementing again has taken none).
Compensated == {c \in DOMAIN cpc : cpc[c] = "retry"}
C16_NetDecrement == _queue_count = Visible - ncalls + Cardinality(Compensated)
C16_WaitBranches ==
    /\ []C16_NetDecrement
    /\ [][\A c \in DOMAIN cpc :
            /\ (cpc[c] = "parked" /\ cpc'[c] = "wait") =>
                  (_queue_count' = _queue_count /\ cq'[c] = cq[c] /\ nreads' = nreads)
            /\ (cpc[c] = "compensate" /\ cpc'[c] # "compensate") =>
                  (_queue_count' = _queue_count + 1 /\ cpc'[c] = "retry")]_vars
C16_Witness ==
    /\ \E c \in DOMAIN cpc : cpc[c] = "retry"
    /\ \E c \in DOMAIN cpc : cpc[c] = "parked"
    /\ _queue_count = Visible - ncalls + 1

\* C20: wakeup_all leaves _read_index alone while nothing was ever enqueued:
\* the consumers it releases claim no slot.
C20_WakeupClaimsNoSlot == (Len(wlog) = 0) => (nreads = 0 /\ _read_index = 0)

\* C17: a consumer that has won the test-and-set and is about to subtract
\* the capacity finds _read_index not rebased since its own claim: the
\* crossing its claim belongs to is rebased by one consumer only.
C17_RebaseOnce ==
    (nreads <= Visible) =>
        \A c \in DOMAIN cpc :
            cpc[c] = "sub_read" => _read_index = cr[c].my + 1 + (nreads - cr[c].claim)

\* C19: with a capacity set, _read_index and _write_index are never negative
\* and every slot index a call holds lies in 0 .. capacity - 1.
C19_IndicesInRange ==
    (ready /\ ~panicked /\ nreads <= Visible) =>
        /\ _read_index >= 0
        /\ _write_index >= 0
        /\ \A c \in DOMAIN cpc : cpc[c] \in {"tas", "sub_read", "sub_write", "clear", "read"} =>
               cr[c].idx \in 0..(_size - 1)
        /\ \A p \in DOMAIN ppc : ppc[p] = "store" => pw[p].idx \in 0..(_size - 1)

\* C18: _read_index is congruent modulo the capacity to the number of read
\* claims made and _write_index to the number of write claims made, also
\* between the two subtractions of a rebase, and so the k-th read claim and
\* the k-th write claim hold the same slot index, (k - 1) mod capacity.
C18_Congruent ==
    ready =>
        /\ (_read_index - nreads) % _size = 0
        /\ (_write_index - Len(wlog)) % _size = 0
C18_SameSlot ==
    (ready /\ ~panicked /\ nreads <= Visible) =>
        /\ C18_Congruent
        /\ \A c \in DOMAIN cpc : cr[c].claim > 0 => cr[c].idx = (cr[c].claim - 1) % _size
        /\ \A p \in DOMAIN ppc : pw[p].claim > 0 => pw[p].idx = (pw[p].claim - 1) % _size

\* C11: multi(out, low, high, count) appends exactly count keys to out; the
\* appended keys are canonical, strictly increasing under compare, and each
\* strictly above low and strictly below high.
Appended == [i \in 1..(Len(key.res) - Len(key.list)) |-> key.res[Len(key.list) + i]]
C11_MultiBetween ==
    key.done =>
        /\ Len(key.res) = Len(key.list) + key.count
        /\ SubSeq(key.res, 1, Len(key.list)) = key.list
        /\ \A i \in 1..Len(Appended) :
              /\ Canonical(Appended[i])
              /\ key.low # Null => compare(key.low, Appended[i]) < 0
              /\ key.high # Null => compare(Appended[i], key.high) < 0
              /\ i > 1 => compare(Appended[i - 1], Appended[i]) < 0
\* neighbouring keys one unit apart and more than one key asked for: the
\* boundaries need a further digit place
C11_Witness ==
    /\ key.done /\ key.low # Null /\ key.high # Null
    /\ key.count > 1
    /\ key.low.magnitude = key.high.magnitude
    /\ key.high = increment(key.low)
    /\ Len(key.res) = Len(key.list) + key.count
    /\ \A i \in 1..Len(Appended) : Appended[i].magnitude = key.low.magnitude + 1

\* C12: compare is a total order on keys of any magnitudes: compare(a, a) = 0,
\* compare(a, b) = -compare(b, a), a < b and b < c give a < c, and compare
\* is 0 exactly for keys that differ in trailing zero digits only (the
\* zero-padding to a common magnitude).
C12_TotalOrder ==
    key.done =>
        /\ key.aa = 0
        /\ key.ab \in {-1, 0, 1} /\ key.ab = -key.ba
        /\ (key.ab < 0 /\ key.bc < 0) => key.ac < 0
        /\ key.ab = 0 <=> truncate_fraction(key.a) = truncate_fraction(key.b)
\* a is a proper prefix of the longer b, and b is below the shorter c
C12_Witness ==
    /\ key.done
    /\ key.a.magnitude < key.b.magnitude /\ key.b.magnitude > key.c.magnitude
    /\ key.ab < 0 /\ key.bc < 0 /\ key.ac < 0 /\ key.ba > 0
    /\ key.a.digits[1] = key.b.digits[1]
====
